---- MODULE Spec2Model ----
(***************************************************************************)
(* Users module of the rental backend: UsersService (create, findAll,      *)
(* findOne, findByEmail, update, remove) over the TypeORM repository of    *)
(* the User entity.  Every await of the service is a step boundary, so     *)
(* concurrent requests interleave between a read and the following save.   *)
(***************************************************************************)
EXTENDS Integers, FiniteSets, Sequences, TLC

(* ------------------------------ bounds --------------------------------- *)
\* writes (INSERT / UPDATE attempts) in one behaviour; the clock stops there
MaxClock == 3

\* request slots: two calls may be in flight at once
Procs == {1, 2}
\* primary keys the table hands out
Ids == {1, 2}
\* ids a caller may present: the stored ones and one that is never generated
CallerIds == Ids \cup {3}
\* salts bcrypt.genSalt may return
Salts == {1}
Emails == {"a@x.io", "b@x.io"}
\* values a registration carries
CreateNames == {"Alpha"}
CreatePlaintexts == {"MyP@ssw0rd"}
\* values a PATCH carries
UpdateNames == {"Beta"}
UpdatePlaintexts == {"NewP@ss123"}
Plaintexts == CreatePlaintexts \cup UpdatePlaintexts
Phones == {"+233999999999"}
RoleInputs == {"admin"}
\* a role string outside the enum, as a caller may send it
BadRoles == {"superuser"}
\* field sets of the PATCH bodies: none, or one field
UpdateShapes ==
  {{}, {"fullName"}, {"email"}, {"password"}, {"phoneNumber"}, {"role"},
   {"isActive"}}

(* --------------------------- User entity ------------------------------- *)
Roles == {"customer", "driver", "manager", "admin"}

RowFields ==
  {"id", "fullName", "email", "password", "phoneNumber", "role", "isActive",
   "createdAt", "updatedAt"}

\* @Column({ select: false }) password: left out of every default query
DefaultSelect == RowFields \ {"password"}

\* select list of findByEmail
FindByEmailSelect == {"id", "email", "password", "role", "fullName", "isActive"}

\* column defaults with the role default set to the most privileged role
ColumnDefault_Admin(f) ==
  CASE f = "phoneNumber" -> "null"
    [] f = "role" -> "admin"
    [] f = "isActive" -> TRUE

\* column defaults of the entity: nullable phoneNumber, role, isActive
ColumnDefault(f) ==
  CASE f = "phoneNumber" -> "null"
    [] f = "role" -> "customer"
    [] f = "isActive" -> TRUE

\* a plaintext as the request carries it
Plain(p) == [kind |-> "plain", text |-> p, salt |-> 0]

\* bcrypt.hash(plain, salt): the digest embeds its salt
Hash(p, s) == [kind |-> "digest", text |-> p, salt |-> s]

\* @BeforeInsert hashPasswordBeforeInsert
hashPasswordBeforeInsert(entity, s) ==
  IF "password" \in DOMAIN entity
  THEN [entity EXCEPT !["password"] = Hash(entity["password"].text, s)]
  ELSE entity

\* validatePassword: bcrypt.compare(plain, this.password)
\* a comparison of the two strings in place of bcrypt.compare
validatePassword_TextOnly(stored, p) == stored.text = p

validatePassword(stored, p) == stored.kind = "digest" /\ stored.text = p

(* ------------------------------ DTOs ----------------------------------- *)
Pick(D, r) == [f \in D |-> r[f]]

CreateOptional == {"phoneNumber", "role"}

CreateDtos ==
  { Pick({"fullName", "email", "password"} \cup D, r) :
      D \in SUBSET CreateOptional,
      r \in [fullName : CreateNames, email : Emails,
             password : {Plain(p) : p \in CreatePlaintexts},
             phoneNumber : Phones, role : RoleInputs] }

UpdateFields == {"fullName", "email", "password", "phoneNumber", "role", "isActive"}

UpdateDtos ==
  { Pick(D, r) :
      D \in UpdateShapes,
      r \in [fullName : UpdateNames, email : Emails,
             password : {Plain(p) : p \in UpdatePlaintexts},
             phoneNumber : Phones, role : RoleInputs, isActive : BOOLEAN] }

CreateFields == {"fullName", "email", "password"} \cup CreateOptional

\* bodies the validation has to turn away: a role outside the enum, and
\* properties the DTO does not declare
BadCreateBodies ==
  { [fullName |-> n, email |-> e, password |-> Plain(p), role |-> r] :
      n \in CreateNames, e \in Emails, p \in CreatePlaintexts, r \in BadRoles }

BadUpdateBodies ==
  { [role |-> r] : r \in BadRoles } \cup { [createdAt |-> 0], [id |-> 0] }

CreateBodies == CreateDtos \cup BadCreateBodies
UpdateBodies == UpdateDtos \cup BadUpdateBodies

\* an enum check that lets every string through
IsEnumRole_Any(body) == TRUE

\* @IsOptional() @IsEnum([...]) role
IsEnumRole(body) == "role" \in DOMAIN body => body["role"] \in Roles

\* a pipe that keeps properties the DTO does not declare
Whitelisted_Off(body, declared) == TRUE

\* ValidationPipe({ whitelist: true, forbidNonWhitelisted: true })
Whitelisted(body, declared) == DOMAIN body \subseteq declared

\* the pipe's verdict on a POST /users body
ValidCreate(body) ==
  /\ Whitelisted(body, CreateFields)
  /\ {"fullName", "email", "password"} \subseteq DOMAIN body
  /\ IsEnumRole(body)

\* the pipe's verdict on a PATCH /users/:id body
ValidUpdate(body) ==
  /\ Whitelisted(body, UpdateFields)
  /\ IsEnumRole(body)

\* the messages of the 400 response
ValidationErrors(body, declared) ==
  [message |->
     <<IF Whitelisted(body, declared) THEN "" ELSE "property should not exist",
       IF IsEnumRole(body) THEN ""
       ELSE "Role must be customer, driver, manager, or admin">>]

(* ---------------------------- repository ------------------------------- *)
Null == [isNull |-> TRUE]
NoDto == [f \in {} |-> 0]

\* a lookup by id that falls back to some row when the id is unknown
FindById_Fallback(store, id) ==
  IF id \in DOMAIN store THEN Pick(DefaultSelect, store[id])
  ELSE IF DOMAIN store = {} THEN Null
  ELSE Pick(DefaultSelect, store[CHOOSE i \in DOMAIN store : TRUE])

\* repository.findOne({ where: { id } })
FindById(store, id) ==
  IF id \in DOMAIN store THEN Pick(DefaultSelect, store[id]) ELSE Null

\* a lookup by email that never finds a row
FindByEmail_Miss(store, email) == Null

\* a lookup that leaves deactivated accounts out
FindByEmail_ActiveOnly(store, email) ==
  IF \E i \in DOMAIN store : store[i].email = email /\ store[i].isActive
  THEN Pick(DefaultSelect, store[CHOOSE i \in DOMAIN store : store[i].email = email])
  ELSE Null

\* repository.findOne({ where: { email } })
FindByEmail(store, email) ==
  IF \E i \in DOMAIN store : store[i].email = email
  THEN Pick(DefaultSelect, store[CHOOSE i \in DOMAIN store : store[i].email = email])
  ELSE Null

\* repository.findOne({ where: { email }, select: [...] }) of findByEmail
FindByEmailWithPassword(store, email) ==
  IF \E i \in DOMAIN store : store[i].email = email
  THEN Pick(FindByEmailSelect,
            store[CHOOSE i \in DOMAIN store : store[i].email = email])
  ELSE Null

\* a listing that leaves out the deactivated accounts
FindAll_ActiveOnly(store) ==
  [i \in {j \in DOMAIN store : store[j]["isActive"]} |->
     Pick(DefaultSelect, store[i])]

\* repository.find()
FindAll(store) == [i \in DOMAIN store |-> Pick(DefaultSelect, store[i])]

\* the email column without its unique index
UniqueViolation_NoIndex(store, id, email) == FALSE

\* unique index on email: another row already holds the value
UniqueViolation(store, id, email) ==
  \E i \in DOMAIN store : i # id /\ store[i].email = email

\* Object.assign(user, updateUserDto)
ObjectAssign(target, source) ==
  [f \in DOMAIN target \cup DOMAIN source |->
     IF f \in DOMAIN source THEN source[f] ELSE target[f]]

\* columns save() writes for an existing row: the defined properties of the
\* entity whose value differs from the row it reloads
ChangedColumns(entity, row) ==
  {f \in (DOMAIN entity \cap RowFields) \ {"id", "updatedAt"} :
     entity[f] # row[f]}

\* the row after the UPDATE save() issues
UpdatedRow(entity, row, t) ==
  IF ChangedColumns(entity, row) = {}
  THEN row
  ELSE [f \in RowFields |->
          IF f \in ChangedColumns(entity, row) THEN entity[f]
          ELSE IF f = "updatedAt" THEN t
          ELSE row[f]]

\* the row the INSERT of save() stores for a new entity
InsertedRow(entity, id, t) ==
  [f \in RowFields |->
     IF f = "id" THEN id
     ELSE IF f \in {"createdAt", "updatedAt"} THEN t
     ELSE IF f \in DOMAIN entity THEN entity[f]
     ELSE ColumnDefault(f)]

\* @PrimaryGeneratedColumn('uuid'): a value no row has
NewId(store) == CHOOSE i \in Ids : i \notin DOMAIN store

(* ------------------------------- state --------------------------------- *)
VARIABLES
  users,   \* the users table: id -> row
  now,     \* database clock, advanced by every write
  pc,      \* per request slot: position inside the service method
  dto,     \* per request slot: the request body
  target,  \* per request slot: the :id parameter
  user,    \* per request slot: the entity loaded by findOne
  last     \* outcome of the call that completed most recently

vars == <<users, now, pc, dto, target, user, last>>

\* what a finished call leaves behind: its result or the exception thrown, and
\* for a successful write the names of the body's fields and the columns the
\* save wrote
Outcome(op, status, value, fields, changed) ==
  [op |-> op, status |-> status, value |-> value, fields |-> fields,
   changed |-> changed]

\* NotFoundException(`User with ID ${id} not found`)
NotFound(id) == [message |-> <<"User with ID ", id, " not found">>]

\* ConflictException('Email already exists')
Conflict == [message |-> <<"Email already exists">>]

\* QueryFailedError raised by the driver on a unique violation
QueryFailed == [message |-> <<"duplicate key value violates unique constraint">>]

Init ==
  /\ users = [i \in {} |-> 0]
  /\ now = 0
  /\ pc = [p \in Procs |-> "idle"]
  /\ dto = [p \in Procs |-> NoDto]
  /\ target = [p \in Procs |-> 0]
  /\ user = [p \in Procs |-> Null]
  /\ last = Outcome("none", "none", Null, {}, {})

InFlight == Cardinality({p \in Procs : pc[p] # "idle"})

\* a mutating request starts only while the clock leaves room for its write
MayWrite == now + InFlight < MaxClock

Finish(p, op, status, value, fields, changed) ==
  /\ last' = Outcome(op, status, value, fields, changed)
  /\ pc' = [pc EXCEPT ![p] = "idle"]
  /\ dto' = [dto EXCEPT ![p] = NoDto]
  /\ target' = [target EXCEPT ![p] = 0]
  /\ user' = [user EXCEPT ![p] = Null]

Park(p, at, id, body, loaded) ==
  /\ pc' = [pc EXCEPT ![p] = at]
  /\ dto' = [dto EXCEPT ![p] = body]
  /\ target' = [target EXCEPT ![p] = id]
  /\ user' = [user EXCEPT ![p] = loaded]
  /\ UNCHANGED last

\* message returned by remove
Deactivated(u) == <<"User ", u.email, " has been deactivated">>

\* a merge that treats a body without isActive as isActive = true
MergedEntity_ResetActive(u, body) ==
  ObjectAssign([u EXCEPT !["isActive"] = TRUE], body)

\* the entity update() hands to save()
MergedEntity(u, body) == ObjectAssign(u, body)

\* a deactivation that flips the flag instead of clearing it
DeactivatedEntity_Toggle(u) == [u EXCEPT !["isActive"] = ~u["isActive"]]

\* the entity remove() hands to save()
DeactivatedEntity(u) == [u EXCEPT !["isActive"] = FALSE]

\* save() of an entity that has an id: it reloads the row, compares it with
\* the entity and issues an UPDATE of the changed columns, none when nothing
\* differs; the unique index rejects an email another row holds.  The update
\* date column is set by the UPDATE itself.
SaveExisting(p, op, entity, value) ==
  LET id == target[p]
      row == users[id]
      after == UpdatedRow(entity, row, now + 1)
  IN IF "email" \in ChangedColumns(entity, row)
        /\ UniqueViolation(users, id, entity["email"])
     THEN /\ UNCHANGED <<users, now>>
          /\ Finish(p, op, "QueryFailedError", QueryFailed, {}, {})
     ELSE /\ users' = [users EXCEPT ![id] = after]
          /\ now' = IF after = row THEN now ELSE now + 1
          /\ Finish(p, op, "ok",
                    IF op = "remove" THEN value
                    ELSE ObjectAssign(entity, [updatedAt |-> after["updatedAt"]]),
                    DOMAIN dto[p], ChangedColumns(entity, row))

(* ------------------------- UsersService.create ------------------------- *)
create(p, body) ==
  /\ pc[p] = "idle"
  /\ MayWrite
  /\ Cardinality(DOMAIN users)
       + Cardinality({q \in Procs : pc[q] = "create_save"}) < Cardinality(Ids)
  /\ UNCHANGED <<users, now>>
  /\ IF FindByEmail(users, body["email"]) # Null
     THEN Finish(p, "create", "ConflictException", Conflict, {}, {})
     ELSE Park(p, "create_save", 0, body, Null)

createSave(p) ==
  /\ pc[p] = "create_save"
  /\ \E s \in Salts :
       LET entity == hashPasswordBeforeInsert(dto[p], s)
           id == NewId(users)
           row == InsertedRow(entity, id, now + 1)
       IN IF UniqueViolation(users, 0, entity["email"])
          THEN /\ UNCHANGED <<users, now>>
               /\ Finish(p, "create", "QueryFailedError", QueryFailed, {}, {})
          ELSE /\ users' = (id :> row) @@ users
               /\ now' = now + 1
               /\ Finish(p, "create", "ok", row, DOMAIN dto[p], RowFields)

(* ------------------ UsersService.findAll / findOne --------------------- *)
findAll(p) ==
  /\ pc[p] = "idle"
  /\ UNCHANGED <<users, now>>
  /\ Finish(p, "findAll", "ok", FindAll(users), {}, {})

findOne(p, id) ==
  /\ pc[p] = "idle"
  /\ UNCHANGED <<users, now>>
  /\ IF FindById(users, id) = Null
     THEN Finish(p, "findOne", "NotFoundException", NotFound(id), {}, {})
     ELSE Finish(p, "findOne", "ok", FindById(users, id), {}, {})

findByEmail(p, email) ==
  /\ pc[p] = "idle"
  /\ UNCHANGED <<users, now>>
  /\ Finish(p, "findByEmail", "ok", FindByEmailWithPassword(users, email),
            {}, {})

(* ------------------------- UsersService.update ------------------------- *)
update(p, id, body) ==
  /\ pc[p] = "idle"
  /\ MayWrite
  /\ UNCHANGED <<users, now>>
  /\ LET u == FindById(users, id)
     IN IF u = Null
        THEN Finish(p, "update", "NotFoundException", NotFound(id), {}, {})
        ELSE IF "email" \in DOMAIN body /\ body["email"] # u["email"]
        THEN Park(p, "update_check", id, body, u)
        ELSE Park(p, "update_save", id, body, u)

updateCheckEmail(p) ==
  /\ pc[p] = "update_check"
  /\ UNCHANGED <<users, now>>
  /\ IF FindByEmail(users, dto[p]["email"]) # Null
     THEN Finish(p, "update", "ConflictException", Conflict, {}, {})
     ELSE Park(p, "update_save", target[p], dto[p], user[p])

updateSave(p) ==
  /\ pc[p] = "update_save"
  /\ SaveExisting(p, "update", MergedEntity(user[p], dto[p]), Null)

(* ------------------------- UsersService.remove ------------------------- *)
remove(p, id) ==
  /\ pc[p] = "idle"
  /\ MayWrite
  /\ UNCHANGED <<users, now>>
  /\ LET u == FindById(users, id)
     IN IF u = Null
        THEN Finish(p, "remove", "NotFoundException", NotFound(id), {}, {})
        ELSE Park(p, "remove_save", id, NoDto, u)

removeSave(p) ==
  /\ pc[p] = "remove_save"
  /\ SaveExisting(p, "remove", DeactivatedEntity(user[p]),
                  [message |-> Deactivated(user[p])])

(* --------------------------- ValidationPipe ---------------------------- *)
\* the global pipe answers 400 and the controller never runs
badRequest(p, body, declared) ==
  /\ pc[p] = "idle"
  /\ UNCHANGED <<users, now>>
  /\ Finish(p, "validate", "BadRequestException",
            ValidationErrors(body, declared), {}, {})

(* --------------------------- specifications ---------------------------- *)
Start(p) ==
  \/ \E body \in CreateBodies :
       IF ValidCreate(body) THEN create(p, body)
       ELSE badRequest(p, body, CreateFields)
  \/ findAll(p)
  \/ \E id \in CallerIds : findOne(p, id)
  \/ \E email \in Emails : findByEmail(p, email)
  \/ \E id \in CallerIds, body \in UpdateBodies :
       IF ValidUpdate(body) THEN update(p, id, body)
       ELSE badRequest(p, body, UpdateFields)
  \/ \E id \in CallerIds : remove(p, id)

Step(p) ==
  \/ createSave(p)
  \/ updateCheckEmail(p)
  \/ updateSave(p)
  \/ removeSave(p)

Next == \E p \in Procs : Start(p) \/ Step(p)

\* requests interleave at every await
Spec == Init /\ [][Next]_vars

Quiet == \A p \in Procs : pc[p] = "idle"

(* ----------------------------- JwtStrategy ----------------------------- *)
\* configService.getOrThrow('JWT_SECRET'), and a key it is not
SecretOrKey == "JWT_SECRET"
Keys == {SecretOrKey, "forged"}

\* a strategy configured to accept expired tokens
IgnoreExpiration_On == TRUE

\* ignoreExpiration: false
IgnoreExpiration == FALSE

\* JwtPayload with the registered claims iat and exp the signer adds
Payloads ==
  { [sub |-> 1, email |-> "a@x.io", role |-> "customer", iat |-> 0, exp |-> 2],
    [sub |-> 1, email |-> "a@x.io", role |-> "customer", iat |-> 0, exp |-> 100],
    [sub |-> 2, email |-> "b@x.io", role |-> "admin", iat |-> 0, exp |-> 100] }

\* what the Authorization header may carry: a signed token, or garbage
Tokens ==
  [wellFormed : {TRUE}, key : Keys, payload : Payloads]
    \cup [wellFormed : {FALSE}, key : {"forged"},
          payload : {[sub |-> 0, email |-> "", role |-> "", iat |-> 0, exp |-> 0]}]

\* the verification passport-jwt runs with the options of the constructor:
\* structure, signature against secretOrKey, then exp against the clock t
JwtVerify(tok, t) ==
  /\ tok.wellFormed
  /\ tok.key = SecretOrKey
  /\ IgnoreExpiration \/ t < tok.payload.exp

\* the reason passport-jwt gives for a 401
JwtFailure(tok, t) ==
  [message |->
     <<IF ~tok.wellFormed THEN "jwt malformed"
       ELSE IF tok.key # SecretOrKey THEN "invalid signature"
       ELSE "jwt expired">>]

\* a validate() that hands the decoded payload on as it is
validate_WholePayload(payload) == payload

\* a validate() that looks the account up and answers with the stored fields
validate_FromStore(payload) ==
  IF payload.sub \in DOMAIN users /\ users[payload.sub]["isActive"]
  THEN [id |-> payload.sub, email |-> users[payload.sub]["email"],
        role |-> users[payload.sub]["role"]]
  ELSE [id |-> 0, email |-> "", role |-> ""]

\* JwtStrategy.validate
validate(payload) ==
  [id |-> payload.sub, email |-> payload.email, role |-> payload.role]

\* a request arrives with a bearer token: jwtFromRequest takes it out
bearer(p, tok) ==
  /\ pc[p] = "idle"
  /\ UNCHANGED <<users, now>>
  /\ Park(p, "jwt_verify", 0, tok, Null)

\* the strategy verifies the token and, when it passes, calls validate
jwtVerify(p) ==
  /\ pc[p] = "jwt_verify"
  /\ UNCHANGED <<users, now>>
  /\ IF JwtVerify(dto[p], now)
     THEN Finish(p, "authenticate", "ok", validate(dto[p].payload), {}, {})
     ELSE Finish(p, "authenticate", "UnauthorizedException",
                 JwtFailure(dto[p], now), {}, {})

NextJwt ==
  \E p \in Procs :
    \/ Quiet /\ Start(p)
    \/ Step(p)
    \/ \E tok \in Tokens : Quiet /\ bearer(p, tok)
    \/ jwtVerify(p)

\* the service together with authenticated requests, one request at a time
SpecJwt == Init /\ [][NextJwt]_vars

(* --------------------------- verifyCredential -------------------------- *)
\* the one outcome of a failed verification
AuthFailure == [message |-> "Invalid credentials"]

LoginEmails == Emails
LoginPlaintexts == Plaintexts \cup {"Wr0ng!pass"}

\* a caller presents an email and a plaintext password
login(p, email, plaintext) ==
  /\ pc[p] = "idle"
  /\ UNCHANGED <<users, now>>
  /\ Park(p, "verify", 0, [email |-> email, password |-> plaintext], Null)

\* fetch by email with the password column, compare, answer the account or
\* the generic failure
verifyCredential(p) ==
  /\ pc[p] = "verify"
  /\ UNCHANGED <<users, now>>
  /\ IF /\ \E i \in DOMAIN users : users[i].email = dto[p].email
        /\ validatePassword(FindByEmailWithPassword(users, dto[p].email).password,
                            dto[p].password)
     THEN Finish(p, "verifyCredential", "ok",
                 FindByEmailWithPassword(users, dto[p].email), {}, {})
     ELSE Finish(p, "verifyCredential", "AuthFailure", AuthFailure, {}, {})

\* the account operations and credential checks, one request at a time
NextAuth ==
  \E p \in Procs :
    \/ Quiet /\ Start(p)
    \/ Step(p)
    \/ \E email \in LoginEmails, plaintext \in LoginPlaintexts :
         Quiet /\ login(p, email, plaintext)
    \/ verifyCredential(p)

SpecAuth == Init /\ [][NextAuth]_vars

\* the store after create and remove of one account: the row is kept, inactive
InitReserved ==
  /\ users = (1 :> [InsertedRow(hashPasswordBeforeInsert(
                                  [email |-> "a@x.io",
                                   password |-> Plain("MyP@ssw0rd"),
                                   fullName |-> "Alpha"], 1), 1, 0)
                      EXCEPT !["isActive"] = FALSE])
  /\ now = 0
  /\ pc = [p \in Procs |-> "idle"]
  /\ dto = [p \in Procs |-> NoDto]
  /\ target = [p \in Procs |-> 0]
  /\ user = [p \in Procs |-> Null]
  /\ last = Outcome("none", "none", Null, {}, {})

\* the account operations on a store that holds a deactivated account
SpecReserved == InitReserved /\ [][Next]_vars

\* the same, one request at a time
SpecReservedSeq == InitReserved /\ [][(\E p \in Procs : (Quiet /\ Start(p)) \/ Step(p))]_vars

NextSeq == \E p \in Procs : (Quiet /\ Start(p)) \/ Step(p)

\* one request at a time: a call starts only when no other is in flight
SpecSeq == Init /\ [][NextSeq]_vars

TypeOK ==
  /\ DOMAIN users \subseteq Ids
  /\ \A i \in DOMAIN users : DOMAIN users[i] = RowFields /\ users[i]["id"] = i
  /\ now \in 0..MaxClock

(* ------------------------------ claims --------------------------------- *)
Stored == DOMAIN users

\* C1: in every reachable state no two stored accounts have the same email,
\* whatever the interleaving of create and update calls
C1_EmailUnique ==
  \A i \in Stored, j \in Stored : i # j => users[i]["email"] # users[j]["email"]

\* two accounts are stored and an update that raced for a taken email was
\* stopped by the index
C1_Witness ==
  /\ Cardinality(Stored) = 2
  /\ last.op = "update"
  /\ last.status = "QueryFailedError"

\* C2: a create call that loses to an account with the same email fails with
\* the conflict error and with no other error kind
C2_LoserGetsConflict ==
  (last.op = "create" /\ last.status # "ok") => last.status = "ConflictException"

\* C3: a create whose email no row holds when it saves succeeds, and findOne of
\* the new id then returns an active account, with role customer when the body
\* had no role and the supplied role otherwise, and without the password
C3_CreateThenGet ==
  [][\A p \in Procs :
       (pc[p] = "create_save" /\ pc'[p] = "idle"
          /\ ~(\E i \in Stored : users[i]["email"] = dto[p]["email"]))
       => /\ last'.op = "create"
          /\ last'.status = "ok"
          /\ LET got == FindById(users', last'.value["id"])
             IN /\ got # Null
                /\ got["isActive"] = TRUE
                /\ got["role"] = IF "role" \in DOMAIN dto[p]
                                 THEN dto[p]["role"] ELSE "customer"
                /\ got["email"] = dto[p]["email"]
                /\ got["fullName"] = dto[p]["fullName"]
                /\ "password" \notin DOMAIN got]_vars

\* a create without a role has succeeded and its row is a customer
C3_Witness ==
  /\ last.op = "create"
  /\ last.status = "ok"
  /\ "role" \notin last.fields
  /\ last.value["id"] \in Stored
  /\ users[last.value["id"]]["role"] = "customer"

\* C4: the value create, findOne, findAll and update return never carries the
\* password field
C4_NoPasswordInOutput ==
  /\ (last.op \in {"create", "findOne", "update"} /\ last.status = "ok")
       => "password" \notin DOMAIN last.value
  /\ (last.op = "findAll" /\ last.status = "ok")
       => \A i \in DOMAIN last.value : "password" \notin DOMAIN last.value[i]

\* C5: the stored password of every account is a digest of the hasher, never
\* the plaintext a caller supplied
C5_StoredPasswordIsDigest ==
  \A i \in Stored : users[i]["password"].kind = "digest"

\* C6: after an update whose body holds a password, validatePassword on the
\* stored record accepts the new plaintext and rejects the old one; an update
\* without a password leaves the stored hash as it was
C6_UpdateRehashes ==
  [][\A p \in Procs :
       (pc[p] = "update_save" /\ pc'[p] = "idle" /\ last'.status = "ok")
       => IF "password" \in DOMAIN dto[p]
          THEN /\ validatePassword(users'[target[p]]["password"],
                                   dto[p]["password"].text)
               /\ \A old \in Plaintexts \ {dto[p]["password"].text} :
                    ~validatePassword(users'[target[p]]["password"], old)
          ELSE users'[target[p]]["password"] = users[target[p]]["password"]]_vars

\* C7: an update changes only the columns its body names, plus updatedAt; with
\* a body holding only phoneNumber every other field of the account and every
\* other account stay as they were
C7_UpdateFrame ==
  [][\A p \in Procs :
       (pc[p] = "update_save" /\ pc'[p] = "idle")
       => /\ DOMAIN users' = Stored
          /\ \A i \in Stored \ {target[p]} : users'[i] = users[i]
          /\ \A f \in RowFields :
               users'[target[p]][f] # users[target[p]][f]
                 => f \in DOMAIN dto[p] \cup {"updatedAt"}
          /\ DOMAIN dto[p] = {"phoneNumber"}
               => \A f \in RowFields \ {"phoneNumber", "updatedAt"} :
                    users'[target[p]][f] = users[target[p]][f]]_vars

\* an update whose body held only phoneNumber has succeeded and wrote it
C7_Witness ==
  /\ last.op = "update"
  /\ last.status = "ok"
  /\ last.fields = {"phoneNumber"}
  /\ last.changed = {"phoneNumber"}
  /\ last.value["updatedAt"] = now

\* C8: an update whose email differs from the loaded account's email fails
\* with the conflict error and writes nothing when a row holds that email; an
\* update whose email is the account's own goes to the save without a lookup
C8_UpdateEmailConflict ==
  [][\A p \in Procs :
       /\ (pc[p] = "update_check" /\ pc'[p] # "update_check"
             /\ \E i \in Stored : users[i]["email"] = dto[p]["email"])
            => /\ pc'[p] = "idle"
               /\ last'.op = "update"
               /\ last'.status = "ConflictException"
               /\ users' = users
       /\ (pc[p] = "idle" /\ pc'[p] = "update_check")
            => /\ "email" \in DOMAIN dto'[p]
               /\ dto'[p]["email"] # users[target'[p]]["email"]
       /\ (pc[p] = "idle" /\ pc'[p] = "update_save" /\ "email" \in DOMAIN dto'[p])
            => dto'[p]["email"] = users[target'[p]]["email"]]_vars

\* with two accounts stored, an update asking for the other one's email was
\* refused
C8_Witness ==
  /\ Cardinality(Stored) = 2
  /\ last.op = "update"
  /\ last.status = "ConflictException"

\* the call that completes in this step began in it: no slot moves
OneStepCall == \A p \in Procs : pc[p] = "idle" /\ pc'[p] = "idle"

C10_RemoveIdempotent ==
  [][\A p \in Procs :
       (pc[p] = "remove_save" /\ pc'[p] = "idle")
       => /\ last'.op = "remove"
          /\ last'.status = "ok"
          /\ users'[target[p]]["isActive"] = FALSE
          /\ last'.value = [message |-> Deactivated(users'[target[p]])]
          /\ last'.value.message[2] \in Emails
          /\ users[target[p]]["isActive"] = FALSE
               => (users' = users /\ now' = now)]_vars

\* a remove of an account that was already inactive has succeeded
C10_Witness ==
  /\ last.op = "remove"
  /\ last.status = "ok"
  /\ last.changed = {}
  /\ \E i \in Stored :
       /\ users[i]["isActive"] = FALSE
       /\ last.value.message[2] = users[i]["email"]

\* C11: no step takes a row out of the table; a deactivated account is still
\* returned by findOne, findByEmail and findAll, and an update whose body
\* holds isActive = true makes it active again
C11_SoftDeleteKeepsRecord ==
  [][/\ Stored \subseteq DOMAIN users'
     /\ \A i \in DOMAIN users' :
          users'[i]["isActive"] = FALSE
            => /\ FindById(users', i) # Null
               /\ FindById(users', i)["id"] = i
               /\ FindByEmailWithPassword(users', users'[i]["email"]) # Null
               /\ FindByEmailWithPassword(users', users'[i]["email"])["id"] = i
               /\ i \in DOMAIN FindAll(users')
     /\ \A p \in Procs :
          (pc[p] = "update_save" /\ pc'[p] = "idle" /\ last'.status = "ok"
             /\ "isActive" \in DOMAIN dto[p] /\ dto[p]["isActive"] = TRUE)
            => users'[target[p]]["isActive"] = TRUE]_vars

\* a deactivated account was made active again by an update
C11_Witness ==
  /\ last.op = "update"
  /\ last.status = "ok"
  /\ last.fields = {"isActive"}
  /\ last.changed = {"isActive"}
  /\ users[last.value["id"]]["isActive"] = TRUE

\* C12: the role of every stored account is one of customer, driver, manager,
\* admin, whatever role string a create or update body carried
C12_RoleInEnum ==
  \A i \in Stored : users[i]["role"] \in {"customer", "driver", "manager", "admin"}

\* a body with a role outside the enum was turned away while an account with
\* a supplied role is stored
C12_Witness ==
  /\ last.status = "BadRequestException"
  /\ last.value.message[2] # ""
  /\ \E i \in Stored : users[i]["role"] = "admin"

\* C18: id and createdAt of every account keep the values the insert gave
\* them through every update and remove, whatever the body holds
C18_IdCreatedAtFrozen ==
  [][\A i \in Stored :
       /\ i \in DOMAIN users'
       /\ users'[i]["id"] = users[i]["id"]
       /\ users'[i]["createdAt"] = users[i]["createdAt"]]_vars

\* an account was created, later changed by an update or a remove, and a body
\* naming a property outside the DTO was turned away
C18_Witness ==
  /\ last.status = "BadRequestException"
  /\ last.value.message[1] # ""
  /\ \E i \in Stored : users[i]["createdAt"] < users[i]["updatedAt"]

\* the slot p finishes the verification of its token in this step
Verified(p) == pc[p] = "jwt_verify" /\ pc'[p] = "idle"

\* C13: a token is accepted exactly when it is well-formed, signed with the
\* configured secret and not yet expired; an expired token is rejected even
\* with a correct signature
C13_TokenAccepted ==
  [][\A p \in Procs :
       Verified(p)
       => /\ last'.op = "authenticate"
          /\ last'.status \in {"ok", "UnauthorizedException"}
          /\ last'.status = "ok"
               <=> (/\ dto[p].wellFormed
                    /\ dto[p].key = "JWT_SECRET"
                    /\ now < dto[p].payload.exp)]_vars

\* a correctly signed token was rejected because its exp had passed
C13_Witness ==
  /\ last.op = "authenticate"
  /\ last.status = "UnauthorizedException"
  /\ last.value.message[1] = "jwt expired"

Diverged(payload) ==
  /\ payload.sub \in Stored
  /\ \/ users[payload.sub]["isActive"] = FALSE
     \/ users[payload.sub]["email"] # payload.email
     \/ users[payload.sub]["role"] # payload.role

\* C15: a well-formed, correctly signed, unexpired token is accepted with the
\* claim of its payload also after its account was deactivated or had its
\* email or role changed, and the verification leaves the table alone
C15_NoStoreLookup ==
  [][\A p \in Procs :
       (Verified(p) /\ dto[p].wellFormed /\ dto[p].key = "JWT_SECRET"
          /\ now < dto[p].payload.exp /\ Diverged(dto[p].payload))
       => /\ last'.status = "ok"
          /\ last'.value["id"] = dto[p].payload.sub
          /\ last'.value["email"] = dto[p].payload.email
          /\ last'.value["role"] = dto[p].payload.role
          /\ users' = users]_vars

\* the first account is deactivated and a token naming it was accepted after
C15_Witness ==
  /\ 1 \in Stored
  /\ users[1]["isActive"] = FALSE
  /\ last.op = "authenticate"
  /\ last.status = "ok"
  /\ last.value["id"] = 1

(* ------------------- CreateUserDto.password validators ----------------- *)
\* @MinLength(8)
MinLength == 8

\* the character classes of the @Matches pattern
LowerCase == {"a", "d", "o", "p", "r", "s", "w", "y"}
UpperCase == {"A", "M", "P"}
Digits == {"0", "1"}
Symbols == {"@", "$", "!", "%", "*", "?", "&"}
\* [A-Za-z\d@$!%*?&]
PatternClass == LowerCase \cup UpperCase \cup Digits \cup Symbols

\* (?=.*[class]) at the start of the string: a character of the class with no
\* line break before it, which "." does not match
Lookahead(pw, class) ==
  \E i \in 1..Len(pw) :
    /\ pw[i] \in class
    /\ \A j \in 1..(i - 1) : pw[j] # "\n"

\* /^(?=.*[a-z])(?=.*[A-Z])(?=.*\d)(?=.*[@$!%*?&])[A-Za-z\d@$!%*?&]/ : the four
\* lookaheads, then one character of the class, with no anchor after it
Matches(pw) ==
  /\ Lookahead(pw, LowerCase)
  /\ Lookahead(pw, UpperCase)
  /\ Lookahead(pw, Digits)
  /\ Lookahead(pw, Symbols)
  /\ Len(pw) >= 1
  /\ pw[1] \in PatternClass

\* @IsString @IsNotEmpty @MinLength(8) @Matches(...)
PasswordValid(pw) ==
  /\ pw # <<>>
  /\ Len(pw) >= MinLength
  /\ Matches(pw)

\* passwords put to the validators: the two of the DTO's notes, one that
\* starts with a character outside the class, and every string made of a
\* four-character head and a tail that brings it to seven or eight characters
PasswordAlphabet == {"a", "A", "1", "@", "#", "\n"}
PasswordTails == {<<"a", "a", "a">>, <<"a", "a", "a", "a">>}
PasswordCandidates ==
  { <<"p", "a", "s", "s", "w", "o", "r", "d">>,
    <<"M", "y", "P", "@", "s", "s", "w", "0", "r", "d">>,
    <<"#", "M", "y", "P", "@", "s", "s", "w", "0", "r", "d">> }
    \cup { head \o tail : head \in [1..4 -> PasswordAlphabet], tail \in PasswordTails }

\* the pipe validates the password of a POST /users body
checkPassword(p, pw) ==
  /\ pc[p] = "idle"
  /\ UNCHANGED <<users, now>>
  /\ Finish(p, "validatePassword",
            IF PasswordValid(pw) THEN "ok" ELSE "BadRequestException",
            [password |-> pw], {}, {})

NextPassword == \E p \in Procs, pw \in PasswordCandidates : checkPassword(p, pw)

\* the password validators applied to every candidate
SpecPassword == Init /\ [][NextPassword]_vars

\* the characters of a string
CharsOf(pw) == {pw[i] : i \in 1..Len(pw)}

\* C16: a password is accepted if and only if it has at least 8 characters and
\* contains a lowercase letter, an uppercase letter, a digit and one of
\* @$!%*?& ; "password" is rejected and "MyP@ssw0rd" is accepted
C16_PasswordRule ==
  last.op = "validatePassword"
    => LET pw == last.value.password
       IN last.status = "ok"
            <=> /\ Len(pw) >= 8
                /\ CharsOf(pw) \cap LowerCase # {}
                /\ CharsOf(pw) \cap UpperCase # {}
                /\ CharsOf(pw) \cap Digits # {}
                /\ CharsOf(pw) \cap {"@", "$", "!", "%", "*", "?", "&"} # {}

C19_StaysInactive ==
  [][\A i \in Stored :
       (users[i]["isActive"] = FALSE /\ users'[i]["isActive"] = TRUE)
         => \E p \in Procs :
              /\ pc[p] = "update_save"
              /\ pc'[p] = "idle"
              /\ target[p] = i
              /\ "isActive" \in DOMAIN dto[p]
              /\ dto[p]["isActive"] = TRUE]_vars

\* C20: when an update that named some fields has been saved and another
\* update of the same account naming other fields (not the email) is saved
\* next, the record holds the values of both
C20_DisjointUpdatesKept ==
  [][\A q \in Procs :
       ( /\ pc[q] = "update_save"
         /\ pc'[q] = "idle"
         /\ last.op = "update"
         /\ last.status = "ok"
         /\ last.fields # {}
         /\ last.value["id"] = target[q]
         /\ DOMAIN dto[q] # {}
         /\ "email" \notin DOMAIN dto[q]
         /\ last.fields \cap DOMAIN dto[q] = {}
         /\ \A f \in last.fields : users[target[q]][f] = last.value[f] )
         => /\ \A f \in last.fields : users'[target[q]][f] = last.value[f]
            /\ \A g \in DOMAIN dto[q] : users'[target[q]][g] = dto[q][g]]_vars

\* the rows other than id that are inactive and hold the email
InactiveHolders(email, id) ==
  {i \in Stored \ {id} : ~users[i]["isActive"] /\ users[i]["email"] = email}

\* C21: while an inactive account holds an email no create with that email
\* gets past the lookup, an update moving another account to it ends with the
\* conflict error and writes nothing, and no other account comes to hold it
C21_EmailStaysReserved ==
  [][/\ \A p \in Procs :
          /\ (pc[p] = "idle" /\ pc'[p] = "create_save")
               => InactiveHolders(dto'[p]["email"], 0) = {}
          /\ (pc[p] = "idle" /\ pc'[p] = "update_save" /\ "email" \in DOMAIN dto'[p])
               => InactiveHolders(dto'[p]["email"], target'[p]) = {}
          /\ (pc[p] = "update_check" /\ InactiveHolders(dto[p]["email"], target[p]) # {})
               => (pc'[p] = "update_check"
                   \/ /\ last' = Outcome("update", "ConflictException",
                                         [message |-> <<"Email already exists">>], {}, {})
                      /\ users' = users)
     /\ \A i \in Stored :
          (~users[i]["isActive"] /\ users'[i]["email"] = users[i]["email"])
            => \A j \in DOMAIN users' \ {i} : users'[j]["email"] # users[i]["email"]]_vars

\* an update has ended with the conflict error while every stored account,
\* the holder of the email it asked for among them, is inactive
C21_Witness ==
  /\ last.op = "update"
  /\ last.status = "ConflictException"
  /\ Cardinality(Stored) = 2
  /\ \A i \in Stored : ~users[i]["isActive"]

====
